---- MODULE Spec2Model ----
(***************************************************************************)
(* Ecotracker integration: the setup wizard (config_flow.py), the polling  *)
(* coordinator and its seven sensor readers (sensor.py).                   *)
(*                                                                         *)
(* Python values are modelled as follows.  A dict is a function from its   *)
(* keys to its values.  An exception is a record [type, msg], msg being    *)
(* the pieces of its text.  Python's None is the record None.  The network *)
(* is an input: every GET draws one NetResult.  The response bodies are    *)
(* JSON objects, as the device's wire protocol has them, or bodies whose   *)
(* read fails.                                                             *)
(***************************************************************************)
EXTENDS Integers, Sequences, FiniteSets, TLC

(* Bounds of the model. *)
MaxReading == 2
MaxSuccess == 2

(* ---------------------------------------------------------------------- *)
(* Constants of the program                                                *)
(* ---------------------------------------------------------------------- *)
HTTP_OK == 200
DEFAULT_SCAN_INTERVAL == 5
CONF_IP_ADDRESS == "ip_address"
CONF_SCAN_INTERVAL == "scan_interval"

API_RESPONSE_JSON_KEYS ==
    << "power", "powerPhase1", "powerPhase2", "powerPhase3", "powerAvg",
       "energyCounterIn", "energyCounterOut" >>

PROBE_REQUIRED_KEYS == << "power", "energyCounterIn", "energyCounterOut" >>

Range(s) == { s[i] : i \in DOMAIN s }

None == [none |-> TRUE]

(* ---------------------------------------------------------------------- *)
(* Inputs: what the device and the network can answer                      *)
(* ---------------------------------------------------------------------- *)
UnknownKey == "foo"

KeyIndex(k) ==
    CASE k = "power"            -> 1
      [] k = "powerPhase1"      -> 2
      [] k = "powerPhase2"      -> 3
      [] k = "powerPhase3"      -> 4
      [] k = "powerAvg"         -> 5
      [] k = "energyCounterIn"  -> 6
      [] k = "energyCounterOut" -> 7
      [] OTHER                  -> 8

(* The key sets of the JSON objects the device answers with: the /v1/json  *)
(* variant, the same with an unknown key, the three-field variant, the     *)
(* seven fields less an optional one, and objects of another device.       *)
BodyKeySets ==
    { Range(API_RESPONSE_JSON_KEYS),
      Range(API_RESPONSE_JSON_KEYS) \cup {UnknownKey},
      Range(PROBE_REQUIRED_KEYS),
      Range(API_RESPONSE_JSON_KEYS) \ {"powerAvg"},
      {"power"},
      {UnknownKey} }

(* The r-th reading of the device: every field has its own value. *)
JsonObject(ks, r) == [k \in ks |-> r * 10 + KeyIndex(k)]

JsonObjects == { JsonObject(ks, r) : ks \in BodyKeySets, r \in 1..MaxReading }

(* What `await response.json()` yields: the parsed object, or an error. *)
Parsed(obj) == [parsed |-> TRUE, json |-> obj]
ReadError(t) == [parsed |-> FALSE, error |-> t]

BodyResults ==
    { Parsed(obj) : obj \in JsonObjects }
        \cup { ReadError(t) : t \in {"JSONDecodeError", "ContentTypeError", "TimeoutError"} }

Statuses == {HTTP_OK, 500}

StatusText(s) == IF s = HTTP_OK THEN "200" ELSE "500"

(* What `session.get(url)` yields within the timeout: an error of the     *)
(* transport, the timeout, or a response.                                  *)
NetResults ==
    { [kind |-> "ClientError"], [kind |-> "TimeoutError"] }
        \cup { [kind |-> "response", status |-> s, body |-> b] :
                   s \in Statuses, b \in BodyResults }

(* ---------------------------------------------------------------------- *)
(* Exceptions and the outcome of a try block                               *)
(* ---------------------------------------------------------------------- *)
Exc(t, m) == [type |-> t, msg |-> m]

UpdateFailed(m) == Exc("UpdateFailed", m)

(* aiohttp.ClientError and its subclasses. *)
IsClientError(exc) == exc.type \in {"ClientError", "ContentTypeError"}

Raise(exc) == [tag |-> "raise", exc |-> exc]
Return(v) == [tag |-> "return", value |-> v]
AwaitJson == [tag |-> "await_json"]

(* ---------------------------------------------------------------------- *)
(* sensor.py: EcotrackerCoordinator._async_update_data                     *)
(* ---------------------------------------------------------------------- *)
(* `key in data` for every key of API_RESPONSE_JSON_KEYS. *)
HasAllKeys(obj, keys) == \A i \in DOMAIN keys : keys[i] \in DOMAIN obj

(* UpdateGet without the check of the status. *)
UpdateGet_NoStatusCheck(net) ==
    CASE net.kind = "ClientError"  -> Raise(Exc("ClientError", << "ClientError" >>))
      [] net.kind = "TimeoutError" -> Raise(Exc("TimeoutError", << "TimeoutError" >>))
      [] OTHER -> AwaitJson

(* The try block up to `await response.json()`. *)
UpdateGet(net) ==
    CASE net.kind = "ClientError"  -> Raise(Exc("ClientError", << "ClientError" >>))
      [] net.kind = "TimeoutError" -> Raise(Exc("TimeoutError", << "TimeoutError" >>))
      [] OTHER ->
            IF net.status # HTTP_OK
            THEN Raise(UpdateFailed(<< "Error fetching data: HTTP ", StatusText(net.status) >>))
            ELSE AwaitJson

(* UpdateJson returning the listed keys only. *)
UpdateJson_ListedKeysOnly(body) ==
    IF ~body.parsed
    THEN Raise(Exc(body.error, << body.error >>))
    ELSE IF ~HasAllKeys(body.json, API_RESPONSE_JSON_KEYS)
         THEN Raise(UpdateFailed(<< "Missing required keys in response" >>))
         ELSE Return([k \in Range(API_RESPONSE_JSON_KEYS) |-> body.json[k]])

(* UpdateJson without the check of the keys. *)
UpdateJson_NoKeyCheck(body) ==
    IF ~body.parsed
    THEN Raise(Exc(body.error, << body.error >>))
    ELSE Return(body.json)

(* The try block from `await response.json()` on. *)
UpdateJson(body) ==
    IF ~body.parsed
    THEN Raise(Exc(body.error, << body.error >>))
    ELSE IF ~HasAllKeys(body.json, API_RESPONSE_JSON_KEYS)
         THEN Raise(UpdateFailed(<< "Missing required keys in response" >>))
         ELSE Return(body.json)

(* UpdateExcept with the cause left out of the text of the catch-all. *)
UpdateExcept_NoCause(exc) ==
    IF IsClientError(exc)
    THEN UpdateFailed(<< "Error communicating with API: " >> \o exc.msg)
    ELSE UpdateFailed(<< "Unexpected error: " >>)

(* The two except clauses: every exception leaves as UpdateFailed. *)
UpdateExcept(exc) ==
    IF IsClientError(exc)
    THEN UpdateFailed(<< "Error communicating with API: " >> \o exc.msg)
    ELSE UpdateFailed(<< "Unexpected error: " >> \o exc.msg)

(* ---------------------------------------------------------------------- *)
(* sensor.py: the seven sensor classes                                     *)
(* ---------------------------------------------------------------------- *)
(* SensorField with the reader of energyCounterIn reading energyCounterOut. *)
SensorField_CopyPaste ==
    [ EcotrackerPowerSensor       |-> "power",
      EcotrackerPowerPhase1Sensor |-> "powerPhase1",
      EcotrackerPowerPhase2Sensor |-> "powerPhase2",
      EcotrackerPowerPhase3Sensor |-> "powerPhase3",
      EcotrackerPowerAvgSensor    |-> "powerAvg",
      EcotrackerEnergyInSensor    |-> "energyCounterOut",
      EcotrackerEnergyOutSensor   |-> "energyCounterOut" ]

SensorField ==
    [ EcotrackerPowerSensor       |-> "power",
      EcotrackerPowerPhase1Sensor |-> "powerPhase1",
      EcotrackerPowerPhase2Sensor |-> "powerPhase2",
      EcotrackerPowerPhase3Sensor |-> "powerPhase3",
      EcotrackerPowerAvgSensor    |-> "powerAvg",
      EcotrackerEnergyInSensor    |-> "energyCounterIn",
      EcotrackerEnergyOutSensor   |-> "energyCounterOut" ]

SensorClasses == DOMAIN SensorField

Value(v) == [kind |-> "value", value |-> v]
NoValue == [kind |-> "None"]
Raised(t) == [kind |-> "raised", type |-> t]

(* dict.get(key): the value, or None when the key is absent. *)
DictGet(d, key) == IF key \in DOMAIN d THEN Value(d[key]) ELSE NoValue

(* `self.coordinator.data.get(<field>)`: None has no attribute get. *)
native_value(coordinator_data, sensor) ==
    IF coordinator_data = None
    THEN Raised("AttributeError")
    ELSE DictGet(coordinator_data, SensorField[sensor])

(* ---------------------------------------------------------------------- *)
(* config_flow.py: validate_input and the two flows                        *)
(* ---------------------------------------------------------------------- *)
MIN_SCAN_INTERVAL == 1
MAX_SCAN_INTERVAL == 3600

Hosts == {"192.168.1.10", "ecotracker.local"}
Intervals == {MIN_SCAN_INTERVAL, DEFAULT_SCAN_INTERVAL, MAX_SCAN_INTERVAL}

(* What STEP_USER_DATA_SCHEMA lets through: the optional interval has a    *)
(* default, so both keys are present.                                      *)
UserInputs == { [ip_address |-> h, scan_interval |-> i] : h \in Hosts, i \in Intervals }

(* What the schema of the options form lets through. *)
OptionsInputs == { [scan_interval |-> i] : i \in Intervals }

EmptyDict == << >>

(* {**a, **b} *)
Merge(a, b) ==
    [k \in DOMAIN a \cup DOMAIN b |-> IF k \in DOMAIN b THEN b[k] ELSE a[k]]

(* ValidateTry without the check of the keys. *)
ValidateTry_NoKeyCheck(net) ==
    CASE net.kind = "ClientError"  -> Raise(Exc("ClientError", << "ClientError" >>))
      [] net.kind = "TimeoutError" -> Raise(Exc("TimeoutError", << "TimeoutError" >>))
      [] OTHER ->
            IF net.status # HTTP_OK
            THEN Raise(Exc("CannotConnect", << "HTTP ", StatusText(net.status) >>))
            ELSE IF ~net.body.parsed
                 THEN Raise(Exc(net.body.error, << net.body.error >>))
                 ELSE Return(None)

(* The try block of validate_input. *)
ValidateTry(net) ==
    CASE net.kind = "ClientError"  -> Raise(Exc("ClientError", << "ClientError" >>))
      [] net.kind = "TimeoutError" -> Raise(Exc("TimeoutError", << "TimeoutError" >>))
      [] OTHER ->
            IF net.status # HTTP_OK
            THEN Raise(Exc("CannotConnect", << "HTTP ", StatusText(net.status) >>))
            ELSE IF ~net.body.parsed
                 THEN Raise(Exc(net.body.error, << net.body.error >>))
                 ELSE IF ~HasAllKeys(net.body.json, PROBE_REQUIRED_KEYS)
                      THEN Raise(Exc("InvalidData", << "Missing required keys in JSON response" >>))
                      ELSE Return(None)

(* The two except clauses of validate_input. *)
ValidateExcept(exc) ==
    IF IsClientError(exc)
    THEN Exc("CannotConnect", << "Connection error: " >> \o exc.msg)
    ELSE Exc("CannotConnect", << "Unexpected error: " >> \o exc.msg)

validate_input(input, net) ==
    LET r == ValidateTry(net)
    IN  IF r.tag = "raise"
        THEN Raise(ValidateExcept(r.exc))
        ELSE Return([title |-> << "Ecotracker (", input[CONF_IP_ADDRESS], ")" >>])

ShowForm(step, errors) == [type |-> "form", step_id |-> step, errors |-> errors]
CreateEntry(title, d) == [type |-> "create_entry", title |-> title, data |-> d]

(* The except clauses of async_step_user. *)
StepUserErrors(exc) ==
    CASE exc.type = "CannotConnect" -> [base |-> "cannot_connect"]
      [] exc.type = "InvalidData"   -> [base |-> "invalid_data"]
      [] OTHER                      -> [base |-> "unknown"]

(* ConfigFlow.async_step_user: the result it returns. *)
StepUser(user_input, net) ==
    IF user_input = None
    THEN ShowForm("user", EmptyDict)
    ELSE LET info == validate_input(user_input, net)
         IN  IF info.tag = "raise"
             THEN ShowForm("user", StepUserErrors(info.exc))
             ELSE CreateEntry(info.value.title, user_input)

(* UpdatedData without the data the entry has. *)
UpdatedData_InputOnly(entry_data, user_input) == user_input

(* The data OptionsFlowHandler.async_step_init gives async_update_entry. *)
UpdatedData(entry_data, user_input) == Merge(entry_data, user_input)

(* The entry the host keeps for a create_entry result of the user step. *)
ConfigEntry(result) == [title |-> result.title, data |-> result.data, options |-> EmptyDict]

(* The entries the user step can have created. *)
CreatedEntries ==
    { ConfigEntry(StepUser(p[1], p[2])) :
        p \in { q \in UserInputs \X NetResults :
                  StepUser(q[1], q[2]).type = "create_entry" } }

(* ---------------------------------------------------------------------- *)
(* State                                                                   *)
(* ---------------------------------------------------------------------- *)
VARIABLES
    entries,             \* the host's config entries of this domain
    flow_result,         \* what the user step returned last, None before
    probe,               \* the input and the probe's answer of that call
    options_result,      \* what the options step returned last, None before
    options_input,       \* the input of that call
    setup,               \* where async_setup_entry of the entry stands
    entities,            \* the sensor objects given to async_add_entities
    url,                 \* coordinator.url
    update_interval,     \* coordinator.update_interval, seconds
    data,                \* coordinator.data
    last_update_success, \* coordinator.last_update_success
    last_exception,      \* coordinator.last_exception
    pc,                  \* where _async_update_data stands
    resp,                \* the answer to the GET of the current or last poll
    nSuccess,            \* successful polls of this coordinator, up to MaxSuccess
    prev_data            \* coordinator.data before the last successful poll

flowVars == << flow_result, probe, options_result, options_input >>
coordVars == << url, update_interval, data, last_update_success, last_exception,
                pc, resp, nSuccess, prev_data >>
sensorVars == << setup, entities, url, update_interval, data, last_update_success,
                 last_exception, pc, resp, nSuccess, prev_data >>
vars == << entries, flow_result, probe, options_result, options_input, setup,
           entities, url, update_interval, data, last_update_success,
           last_exception, pc, resp, nSuccess, prev_data >>

API_ENDPOINT == "/v1/json"

(* No flow has run and no platform is set up. *)
InitRest ==
    /\ flow_result = None
    /\ probe = None
    /\ options_result = None
    /\ options_input = None
    /\ setup = "not_loaded"
    /\ entities = {}
    /\ url = None
    /\ update_interval = 0
    /\ data = None
    /\ last_update_success = TRUE
    /\ last_exception = None
    /\ pc = "idle"
    /\ resp = None
    /\ nSuccess = 0
    /\ prev_data = None

(* ---------------------------------------------------------------------- *)
(* config_flow.py: the actions                                             *)
(* ---------------------------------------------------------------------- *)
(* ConfigFlow.async_step_user; a flow ends with the entry it creates. *)
async_step_user(user_input, net) ==
    /\ IF flow_result = None THEN TRUE ELSE flow_result.type = "form"
    /\ LET result == StepUser(user_input, net)
       IN  /\ flow_result' = result
           /\ entries' = IF result.type = "create_entry"
                         THEN Append(entries, ConfigEntry(result))
                         ELSE entries
    /\ probe' = IF user_input = None THEN None
                ELSE [user_input |-> user_input, net |-> net]
    /\ UNCHANGED << options_result, options_input >>
    /\ UNCHANGED sensorVars

(* OptionsFlowHandler.async_step_init on the entry. *)
async_step_init(user_input) ==
    /\ entries # << >>
    /\ options_input' = user_input
    /\ IF user_input # None
       THEN /\ entries' = [entries EXCEPT ![1] =
                              [@ EXCEPT !.data = UpdatedData(entries[1].data, user_input),
                                        !.options = EmptyDict]]
            /\ options_result' = CreateEntry("", EmptyDict)
       ELSE /\ entries' = entries
            /\ options_result' =
                   [type |-> "form", step_id |-> "init",
                    default |-> IF CONF_SCAN_INTERVAL \in DOMAIN entries[1].data
                                THEN entries[1].data[CONF_SCAN_INTERVAL]
                                ELSE DEFAULT_SCAN_INTERVAL]
    /\ UNCHANGED << flow_result, probe >>
    /\ UNCHANGED sensorVars

(* ---------------------------------------------------------------------- *)
(* sensor.py: the actions                                                  *)
(* ---------------------------------------------------------------------- *)
(* EntitiesAfterFirstRefresh with a refresh that does not raise. *)
EntitiesAfterFirstRefresh_Always(result) == SensorClasses

(* The entities async_setup_entry adds once the first refresh is over:    *)
(* async_config_entry_first_refresh raises when the refresh failed, and   *)
(* the lines after it do not run.                                          *)
EntitiesAfterFirstRefresh(result) ==
    IF result.tag = "return" THEN SensorClasses ELSE {}

(* The coordinator takes the outcome of _async_update_data: the returned  *)
(* mapping becomes coordinator.data, an UpdateFailed is kept as the last  *)
(* exception and the data stays.                                           *)
RefreshDone(result) ==
    /\ pc' = "idle"
    /\ IF result.tag = "return"
       THEN /\ data' = result.value
            /\ last_update_success' = TRUE
            /\ last_exception' = None
            /\ nSuccess' = IF nSuccess < MaxSuccess THEN nSuccess + 1 ELSE nSuccess
            /\ prev_data' = data
       ELSE /\ data' = data
            /\ last_update_success' = FALSE
            /\ last_exception' = result.exc
            /\ UNCHANGED << nSuccess, prev_data >>
    /\ IF setup = "first_refresh"
       THEN /\ entities' = EntitiesAfterFirstRefresh(result)
            /\ setup' = IF result.tag = "return" THEN "loaded" ELSE "not_ready"
       ELSE UNCHANGED << setup, entities >>

(* async_setup_entry up to the await of the first refresh, which starts   *)
(* the first poll; the host calls it again after a setup that was not     *)
(* ready.                                                                  *)
async_setup_entry ==
    /\ entries # << >>
    /\ setup \in {"not_loaded", "not_ready"}
    /\ setup' = "first_refresh"
    /\ url' = << "http://", entries[1].data[CONF_IP_ADDRESS], API_ENDPOINT >>
    /\ update_interval' = IF CONF_SCAN_INTERVAL \in DOMAIN entries[1].data
                          THEN entries[1].data[CONF_SCAN_INTERVAL]
                          ELSE DEFAULT_SCAN_INTERVAL
    /\ data' = None
    /\ last_update_success' = TRUE
    /\ last_exception' = None
    /\ nSuccess' = 0
    /\ prev_data' = None
    /\ pc' = "get"
    /\ resp' = None
    /\ entities' = {}
    /\ UNCHANGED entries
    /\ UNCHANGED flowVars

(* The timer of the coordinator fires: a poll starts, never two at once. *)
Tick ==
    /\ setup = "loaded"
    /\ pc = "idle"
    /\ pc' = "get"
    /\ UNCHANGED << entries, setup, entities, url, update_interval, data,
                    last_update_success, last_exception, resp, nSuccess, prev_data >>
    /\ UNCHANGED flowVars

(* `session.get` is over: lines 103 to 108, and the except clauses. *)
ResponseArrives(net) ==
    /\ pc = "get"
    /\ resp' = net
    /\ LET r == UpdateGet(net)
       IN  IF r.tag = "raise"
           THEN RefreshDone(Raise(UpdateExcept(r.exc)))
           ELSE /\ pc' = "json"
                /\ UNCHANGED << setup, entities, data, last_update_success,
                                last_exception, nSuccess, prev_data >>
    /\ UNCHANGED << entries, url, update_interval >>
    /\ UNCHANGED flowVars

(* `response.json()` is over: lines 109 to 114, and the except clauses. *)
BodyArrives ==
    /\ pc = "json"
    /\ LET r == UpdateJson(resp.body)
       IN  RefreshDone(IF r.tag = "raise" THEN Raise(UpdateExcept(r.exc)) ELSE r)
    /\ UNCHANGED << entries, url, update_interval, resp >>
    /\ UNCHANGED flowVars

(* ---------------------------------------------------------------------- *)
(* Specifications                                                          *)
(* ---------------------------------------------------------------------- *)
(* The sensor platform of an entry the wizard has created. *)
Init ==
    /\ entries \in { << e >> : e \in CreatedEntries }
    /\ InitRest

Next ==
    \/ async_setup_entry
    \/ Tick
    \/ \E net \in NetResults : ResponseArrives(net)
    \/ BodyArrives

Spec == Init /\ [][Next]_vars

(* The setup wizard and the options screen. *)
InitFlow ==
    /\ entries = << >>
    /\ InitRest

NextFlow ==
    \/ \E ui \in UserInputs \cup {None}, net \in NetResults : async_step_user(ui, net)
    \/ \E ui \in OptionsInputs \cup {None} : async_step_init(ui)

SpecFlow == InitFlow /\ [][NextFlow]_vars

(* ---------------------------------------------------------------------- *)
(* Properties                                                              *)
(* ---------------------------------------------------------------------- *)
(* A poll ends in this step. *)
PollEnds == pc # "idle" /\ pc' = "idle"

(* The answer is HTTP 200 with a body that parses as a JSON object. *)
IsParsedOk(net) ==
    IF net.kind # "response" THEN FALSE
    ELSE IF net.status # HTTP_OK THEN FALSE
    ELSE net.body.parsed

(* The answers of a poll that does not succeed: a transport error or the  *)
(* timeout, a status other than 200, a body that does not parse, a parsed *)
(* body without one of the keys the coordinator requires.                  *)
PollFails(net) ==
    IF IsParsedOk(net)
    THEN ~HasAllKeys(net.body.json, API_RESPONSE_JSON_KEYS)
    ELSE TRUE

IsUpdateFailed(exc) == IF exc = None THEN FALSE ELSE exc.type = "UpdateFailed"

(* C1: a poll that does not succeed leaves coordinator.data as it was     *)
(* before the poll, None included, and records a failure: the last update *)
(* is marked unsuccessful and the last exception is an UpdateFailed.       *)
C1_FailedPollKeepsSnapshot ==
    [][ (PollEnds /\ PollFails(resp'))
          => /\ data' = data
             /\ last_update_success' = FALSE
             /\ IsUpdateFailed(last_exception') ]_vars

(* A poll failed on a missing key after an earlier poll had succeeded. *)
C1_Witness ==
    /\ pc = "idle"
    /\ nSuccess >= 1
    /\ data # None
    /\ ~last_update_success
    /\ IF resp = None THEN FALSE
       ELSE IsParsedOk(resp) /\ PollFails(resp)

(* C2: after a successful poll coordinator.data is the parsed body of     *)
(* that poll, key for key and value for value, with nothing of the former *)
(* data left in it.                                                        *)
C2_SnapshotIsBody ==
    [][ (PollEnds /\ last_update_success')
          => /\ IsParsedOk(resp')
             /\ data' = resp'.body.json
             /\ DOMAIN data' = DOMAIN resp'.body.json ]_vars

(* Two successful polls in a row with different bodies, the first with a  *)
(* key the second has not.                                                 *)
C2_Witness ==
    /\ pc = "idle"
    /\ last_update_success
    /\ nSuccess >= 2
    /\ prev_data # None
    /\ data # None
    /\ IF prev_data = None \/ data = None THEN FALSE
       ELSE /\ (DOMAIN prev_data) \ (DOMAIN data) # {}
            /\ data = resp.body.json

(* C3: in every state, a poll in flight or not, coordinator.data is None  *)
(* or one whole body of the device holding power, energyCounterIn and     *)
(* energyCounterOut; never a body without one of them, never a mix of two *)
(* bodies.                                                                 *)
C3_SnapshotWholeOrNone ==
    \/ data = None
    \/ /\ data \in JsonObjects
       /\ Range(PROBE_REQUIRED_KEYS) \subseteq DOMAIN data

(* The readers exist, a poll with another body is in flight. *)
C3_Witness ==
    /\ pc = "json"
    /\ entities = SensorClasses
    /\ data # None
    /\ resp.body.parsed
    /\ IF resp.body.parsed THEN resp.body.json # data ELSE FALSE

(* The body of the poll is installed and the readers of power and of      *)
(* energyCounterIn give its values.                                        *)
InstalledAndRead(body) ==
    /\ data' = body
    /\ last_update_success' = TRUE
    /\ native_value(data', "EcotrackerPowerSensor") = Value(body["power"])
    /\ native_value(data', "EcotrackerEnergyInSensor") = Value(body["energyCounterIn"])

(* C4 as stated: a 200 answer whose body has exactly power,               *)
(* energyCounterIn and energyCounterOut is a successful poll, its body is *)
(* installed and read.                                                     *)
C4_ThreeFieldBodySucceeds ==
    [][ (PollEnds /\ IsParsedOk(resp')
           /\ (IF IsParsedOk(resp')
               THEN DOMAIN resp'.body.json = Range(PROBE_REQUIRED_KEYS)
               ELSE FALSE))
          => InstalledAndRead(resp'.body.json) ]_vars

(* C4 amended: a 200 answer whose body has all seven keys of              *)
(* API_RESPONSE_JSON_KEYS is a successful poll, its body is installed,    *)
(* and the readers of power and energyCounterIn give the body's values.    *)
C4_SevenFieldBodySucceeds ==
    [][ (PollEnds /\ IsParsedOk(resp')
           /\ (IF IsParsedOk(resp')
               THEN HasAllKeys(resp'.body.json, API_RESPONSE_JSON_KEYS)
               ELSE FALSE))
          => InstalledAndRead(resp'.body.json) ]_vars

(* A body of exactly the seven keys is installed and read. *)
C4_Witness ==
    /\ pc = "idle"
    /\ last_update_success
    /\ data # None
    /\ IF data = None THEN FALSE
       ELSE /\ DOMAIN data = Range(API_RESPONSE_JSON_KEYS)
            /\ data = resp.body.json
            /\ native_value(data, "EcotrackerPowerSensor") = Value(data["power"])
            /\ native_value(data, "EcotrackerEnergyInSensor")
                   = Value(data["energyCounterIn"])

(* The probe's answer is a 200 with a JSON body without one of power,     *)
(* energyCounterIn, energyCounterOut.                                      *)
ProbeInvalidData(net) ==
    IF IsParsedOk(net)
    THEN ~HasAllKeys(net.body.json, PROBE_REQUIRED_KEYS)
    ELSE FALSE

(* C5: the user step reports cannot_connect for an unreachable host and   *)
(* invalid_data for a host that answers 200 with a JSON body without one  *)
(* of power, energyCounterIn, energyCounterOut.                            *)
C5_ProbeFailureKinds ==
    (probe # None)
      => /\ (probe.net.kind \in {"ClientError", "TimeoutError"}
               => flow_result = ShowForm("user", [base |-> "cannot_connect"]))
         /\ (ProbeInvalidData(probe.net)
               => flow_result = ShowForm("user", [base |-> "invalid_data"]))

(* C6: whenever the coordinator holds no data yet, or the field of a      *)
(* reader is not in the data, native_value of that reader gives no value  *)
(* and does not raise.                                                     *)
C6_ReaderNeverRaises ==
    (setup # "not_loaded")
      => \A s \in SensorClasses :
            (IF data = None THEN TRUE ELSE SensorField[s] \notin DOMAIN data)
              => native_value(data, s) = NoValue

(* C7: async_setup_entry starts a poll at once; the seven readers are     *)
(* added only when that first poll has succeeded, so wherever a reader is *)
(* registered the coordinator has had a successful poll and holds data;   *)
(* while the first poll runs, and when it failed, no reader is there.      *)
C7_ReadersOnlyAfterFirstSuccess ==
    /\ (entities # {} => (entities = SensorClasses /\ nSuccess >= 1 /\ data # None))
    /\ (setup = "first_refresh" => (pc # "idle" /\ entities = {}))
    /\ (setup = "not_ready" => (entities = {} /\ nSuccess = 0))
    /\ (setup = "loaded" => entities = SensorClasses)

(* The first poll succeeded and the seven readers are registered. *)
C7_Witness ==
    /\ setup = "loaded"
    /\ entities = SensorClasses
    /\ nSuccess = 1
    /\ pc = "idle"

(* C8: the failure a poll signals tells its kind.  It reports the missing *)
(* required keys exactly when the answer was a 200 with a parsed body     *)
(* without a required key; for a status other than 200 it reports the     *)
(* fetch error with the status code; for a transport error, the timeout   *)
(* and a body that does not parse it reports that error.                   *)
C8_FailureTellsKind ==
    (pc = "idle" /\ resp # None /\ ~last_update_success)
      => /\ IsUpdateFailed(last_exception)
         /\ (IF IsParsedOk(resp)
             THEN "Missing required keys in response" \in Range(last_exception.msg)
             ELSE "Missing required keys in response" \notin Range(last_exception.msg))
         /\ (IF resp.kind = "response"
             THEN IF resp.status # HTTP_OK
                  THEN /\ "Error fetching data: HTTP " \in Range(last_exception.msg)
                       /\ StatusText(resp.status) \in Range(last_exception.msg)
                  ELSE IF ~resp.body.parsed
                       THEN resp.body.error \in Range(last_exception.msg)
                       ELSE TRUE
             ELSE resp.kind \in Range(last_exception.msg))

(* A poll failed on a 200 answer whose parsed body lacks a required key. *)
C8_Witness ==
    /\ pc = "idle"
    /\ ~last_update_success
    /\ IF resp = None THEN FALSE
       ELSE /\ IsParsedOk(resp)
            /\ IsUpdateFailed(last_exception)
            /\ "Missing required keys in response" \in Range(last_exception.msg)

(* The probe's answer lets validate_input return. *)
ProbePasses(net) ==
    IF IsParsedOk(net)
    THEN HasAllKeys(net.body.json, PROBE_REQUIRED_KEYS)
    ELSE FALSE

(* C9: a submission of the user step creates an entry exactly when the    *)
(* probe passes, with the submitted input as its data; when the probe     *)
(* fails no entry is created and the form comes back with one error code  *)
(* under base; there is never more than one entry.                         *)
C9_EntryIffProbePasses ==
    [][ ((flow_result' # flow_result \/ probe' # probe) /\ probe' # None)
          => /\ Len(entries') <= 1
             /\ IF ProbePasses(probe'.net)
                THEN /\ flow_result'.type = "create_entry"
                     /\ flow_result'.data = probe'.user_input
                     /\ Len(entries') = Len(entries) + 1
                     /\ entries'[Len(entries')].data = probe'.user_input
                ELSE /\ entries' = entries
                     /\ flow_result'.type = "form"
                     /\ flow_result'.step_id = "user"
                     /\ DOMAIN flow_result'.errors = {"base"}
                     /\ flow_result'.errors["base"]
                            \in {"cannot_connect", "invalid_data", "unknown"} ]_vars

(* The probe passed and the one entry holds the submitted input. *)
C9_Witness ==
    /\ probe # None
    /\ Len(entries) = 1
    /\ IF probe = None \/ entries = << >> THEN FALSE
       ELSE /\ ProbePasses(probe.net)
            /\ flow_result.type = "create_entry"
            /\ entries[1].data = probe.user_input

(* C10: a submission of the options step changes the entry in place: its  *)
(* scan_interval is the submitted one, every other key of its data is as  *)
(* before, and there is still the one entry.                               *)
C10_OptionsUpdateInPlace ==
    [][ (UNCHANGED << flow_result, probe >> /\ options_input' # None)
          => /\ Len(entries') = Len(entries)
             /\ Len(entries') = 1
             /\ entries'[1].data[CONF_SCAN_INTERVAL] = options_input'[CONF_SCAN_INTERVAL]
             /\ DOMAIN entries'[1].data = DOMAIN entries[1].data \cup DOMAIN options_input'
             /\ \A k \in (DOMAIN entries[1].data) \ (DOMAIN options_input') :
                    entries'[1].data[k] = entries[1].data[k]
             /\ entries'[1].title = entries[1].title ]_vars

(* The interval of the entry is the submitted one, not the one it was     *)
(* created with, and the address is the one it was created with.           *)
C10_Witness ==
    /\ options_input # None
    /\ entries # << >>
    /\ IF options_input = None \/ entries = << >> THEN FALSE
       ELSE /\ entries[1].data[CONF_SCAN_INTERVAL] = options_input[CONF_SCAN_INTERVAL]
            /\ entries[1].data[CONF_SCAN_INTERVAL] # flow_result.data[CONF_SCAN_INTERVAL]
            /\ entries[1].data[CONF_IP_ADDRESS] = flow_result.data[CONF_IP_ADDRESS]

====
